---------------------------- MODULE Spec2Model ----------------------------
(***************************************************************************)
(* Model of the brother-cert printer workflows: SetActiveCert              *)
(* (pkg/printer/http_settings.go), DeleteCert (pkg/printer/cert_delete.go) *)
(* and UploadNewCert (the certificate import file).  One invocation runs   *)
(* at a time against one device; every blocking round trip of a workflow   *)
(* is one action, and the requests an invocation issues are recorded in    *)
(* the log `sent`.                                                         *)
(***************************************************************************)
EXTENDS Naturals, Integers, Sequences, FiniteSets, TLC

VARIABLES
    certs,        \* device: the set of certificate IDs it currently holds
    op,           \* the workflow being run, "none" when idle
    pc,           \* position of the invocation inside the workflow
    id,           \* the caller's certificate ID argument
    bodyBytes,    \* local bodyBytes: the page body read last
    csrfToken,    \* local csrfToken
    formFields,   \* local formFields: what the discoverer returned, nil or a field set
    data,         \* local data (url.Values), a set of <<key, value>> pairs
    parts,        \* local multipart form, a sequence of <<name, value>> parts
    existingIDs,  \* DeleteCert: local existingIDs
    origCertIDs,  \* UploadNewCert: local origCertIDs
    newCertIDs,   \* UploadNewCert: local newCertIDs
    sent,         \* log of the events (requests, sleeps) of this invocation
    result,       \* what the invocation returned: [err, val]
    startCerts,   \* the device's certificate set when the invocation began
    calls,        \* two callers sharing the printer: each one's workflow, step, token
    session,      \* device: the number of the CSRF token it issued last
    serialised,   \* whether the two callers take turns
    posts         \* the form POSTs the two callers submitted

\* the state of one invocation and its device
workVars == <<certs, op, pc, id, bodyBytes, csrfToken, formFields, data, parts,
              existingIDs, origCertIDs, newCertIDs, sent, result, startCerts>>

\* the state of two callers sharing one printer
sharedVars == <<calls, session, serialised, posts>>

vars == <<workVars, sharedVars>>

----------------------------------------------------------------------------
(* Bounds and small input sets *)

\* longest ID list the lister reports
MaxListLen == 3

\* certificate IDs the device can hold
IDs == {"1", "2", "3"}

\* IDs a caller may pass: device IDs, the empty ID and the sentinel "0"
ArgIDs == IDs \cup {"", "0"}

\* CSRF tokens a page may carry
Tokens == {"t1", "t2"}

\* http.StatusOK
StatusOK == 200

\* statuses a device answers with; NetErr stands for httpClient.Do failing
NetErr == "neterr"
Statuses == {StatusOK, 500}

----------------------------------------------------------------------------
(* Errors *)

NoErr == "nil"
errCertDeleteInvalidID == "printer: cant delete cert (invalid id)"
ErrStillExists == "printer: failed to delete cert (still exists)"
ErrDeduce == "printer: upload: failed to deduce new cert's id"
ErrSelectField == "printer: http settings: failed to find certificate select field name"
ErrFileField == "printer: upload: failed to find file input field name"
ErrPasswordField == "printer: upload: failed to find password input field name"
ErrGetDeletePage == "printer: get of delete page failed"
ErrPostDelete == "printer: get failed"
ErrGetSettingsPage == "printer: get of http settings page failed"
ErrPostSetActive == "printer: failed to post set active cert form"
ErrGetImportPage == "printer: get of certificate import page failed"
ErrPostImport == "printer: post of new certificate failed"
ErrMakeP12 == "printer: failed to make p12 file"
ErrTransport == "http client error"
ErrGetCertIDs == "getCertIDs error"
ErrCSRFToken == "csrf token not found"

----------------------------------------------------------------------------
(* Page bodies.  A body is [token, elems]: the CSRF token it carries ("" for
   none) and its form elements in document order.  An element is
   [tag, attrs, text]: attrs is the sequence of <<attribute, value>> pairs in
   the order they are written in the tag, text is the literal text between
   the tag and the next "<".  No element repeats an attribute. *)

Elem(tag, attrs, text) == [tag |-> tag, attrs |-> attrs, text |-> text]

Body(token, elems) == [token |-> token, elems |-> elems]

NoBody == Body("", <<>>)

\* attribute positions of element e
Pos(e) == DOMAIN e.attrs

\* attribute k of element e is  n="<non-empty>"  (the regex piece n="([^"]+)")
AttrNamed(e, k, n) == e.attrs[k][1] = n /\ e.attrs[k][2] # ""

\* attribute k of element e is exactly  n="v"
AttrIs(e, k, n, v) == e.attrs[k] = <<n, v>>

\* positions <<i, j>>, both after position t, of the pair  a="..." ... b="..."
PairsAfter(e, t, a, b) ==
    { ij \in Pos(e) \X Pos(e) :
        /\ t < ij[1] /\ ij[1] < ij[2]
        /\ AttrNamed(e, ij[1], a) /\ AttrNamed(e, ij[2], b) }

\* The alternation (?:id="([^"]+)"[^>]+name="([^"]+)"|name="([^"]+)"[^>]+id="([^"]+)")
\* after position t and before position v (v = 0: no attribute need follow).
\* Yields the submatches <<m1, m3>> of every way the pair can match.
IdNameCaptures(e, t, v) ==
    { <<e.attrs[ij[1]][2], "">> :
        ij \in { p \in PairsAfter(e, t, "id", "name") : v = 0 \/ p[2] < v } }
    \cup
    { <<"", e.attrs[ij[1]][2]>> :
        ij \in { p \in PairsAfter(e, t, "name", "id") : v = 0 \/ p[2] < v } }

\* the code's choice between submatch 1 and submatch 3
FieldNameOf(m) == IF m[1] # "" THEN m[1] ELSE IF m[2] # "" THEN m[2] ELSE ""

\* hiddenRegex on one element: the set of captures (empty: no match)
HiddenCaptures(e) ==
    IF e.tag # "input" THEN {}
    ELSE UNION { IdNameCaptures(e, tv[1], tv[2]) :
                   tv \in { q \in Pos(e) \X Pos(e) :
                              /\ AttrIs(e, q[1], "type", "hidden")
                              /\ AttrIs(e, q[2], "value", "") } }

\* selectRegex on one element
SelectCaptures(e) ==
    IF e.tag # "select" THEN {} ELSE IdNameCaptures(e, 0, 0)

\* httpsCheckboxRegex on one element
CheckboxCaptures(e) ==
    IF e.tag # "input" \/ e.text # "HTTPS" THEN {}
    ELSE UNION { IdNameCaptures(e, tv[1], tv[2]) :
                   tv \in { q \in Pos(e) \X Pos(e) :
                              /\ AttrIs(e, q[1], "type", "checkbox")
                              /\ AttrIs(e, q[2], "value", "1") } }

\* fileRegex / passwordRegex on one element: (?:id="([^"]+)"|name="([^"]+)")
\* after type="ty"; the greedy [^>]+ before it makes the last such attribute
\* of the tag the one captured
LastIdOrName(e, ty) ==
    LET ts == { t \in Pos(e) : AttrIs(e, t, "type", ty) }
        ks == { k \in Pos(e) :
                  /\ \E t \in ts : t < k
                  /\ AttrNamed(e, k, "id") \/ AttrNamed(e, k, "name") }
    IN  IF e.tag # "input" \/ ks = {} THEN ""
        ELSE e.attrs[CHOOSE k \in ks : \A k2 \in ks : k2 <= k][2]

\* FindAllSubmatch(hiddenRegex) followed by the loop that names each match
HiddenMatchNames(body) ==
    LET Matches(e) == HiddenCaptures(e) # {}
        ms == SelectSeq(body.elems, Matches)
    IN  [k \in DOMAIN ms |-> FieldNameOf(CHOOSE m \in HiddenCaptures(ms[k]) : TRUE)]

\* a nil pointer, a pointer to x, and the value a non-nil pointer points to
Nil == {}
Ptr(x) == {x}
Deref(p) == CHOOSE x \in p : TRUE

\* the names a discoverer of hidden companion fields skips
KnownDeleteNames ==
    {"CSRFToken", "CSRFToken1", "pageid", "hidden_certificate_process_control",
     "hidden_certificate_idx"}

KnownImportNames ==
    {"CSRFToken", "CSRFToken1", "pageid", "hidden_certificate_process_control",
     "hidden_cert_import_password"}

\* the loop over hiddenMatches: the names kept, in document order
HiddenFields(body, known) ==
    LET Kept(n) == n # "" /\ n \notin known
    IN  SelectSeq(HiddenMatchNames(body), Kept)

\* hiddenField1 and hiddenField2 out of the kept names
CompanionPair(hiddenFields) ==
    IF Len(hiddenFields) >= 2
    THEN <<hiddenFields[1], hiddenFields[2]>>
    ELSE <<"", "">>

\* parseDeleteFormFields: [fields, err]
parseDeleteFormFields(body) ==
    LET hp == CompanionPair(HiddenFields(body, KnownDeleteNames))
    IN  [fields |-> Ptr([hiddenField1 |-> hp[1], hiddenField2 |-> hp[2]]),
         err |-> NoErr]

\* FindSubmatch(fileRegex) / FindSubmatch(passwordRegex): the name captured in
\* the first element of the body the regex matches, "" when none matches
FirstTyped(body, ty) ==
    LET Matches(e) == LastIdOrName(e, ty) # ""
        ms == SelectSeq(body.elems, Matches)
    IN  IF ms = <<>> THEN "" ELSE LastIdOrName(ms[1], ty)

\* parseImportFormFields: [fields, err]
parseImportFormFields(body) ==
    LET hp == CompanionPair(HiddenFields(body, KnownImportNames))
        fileField == FirstTyped(body, "file")
        passwordField == FirstTyped(body, "password")
    IN  IF fileField = "" THEN [fields |-> Nil, err |-> ErrFileField]
        ELSE IF passwordField = "" THEN [fields |-> Nil, err |-> ErrPasswordField]
        ELSE [fields |-> Ptr([hiddenField1 |-> hp[1], hiddenField2 |-> hp[2],
                              fileField |-> fileField,
                              passwordField |-> passwordField]),
              err |-> NoErr]

\* FindSubmatch(selectRegex) and the choice of its submatch
CertSelectField(body) ==
    LET Matches(e) == SelectCaptures(e) # {}
        ms == SelectSeq(body.elems, Matches)
    IN  IF ms = <<>> THEN ""
        ELSE FieldNameOf(CHOOSE m \in SelectCaptures(ms[1]) : TRUE)

\* FindAllSubmatch(httpsCheckboxRegex) and the name of each match
HttpsMatchNames(body) ==
    LET Matches(e) == CheckboxCaptures(e) # {}
        ms == SelectSeq(body.elems, Matches)
    IN  [k \in DOMAIN ms |-> FieldNameOf(CHOOSE m \in CheckboxCaptures(ms[k]) : TRUE)]

\* the loop with a plain else in place of  else if i == 1 : every match after
\* the first overwrites the IPP role
HttpsRole_LastWins(names, i) ==
    IF names = <<>> THEN ""
    ELSE IF i = 0 THEN names[1]
    ELSE IF Len(names) >= 2 THEN names[Len(names)] ELSE ""

\* the loop over httpsMatches: match i = 0 names the WebUI role, i = 1 the IPP role
HttpsRole(names, i) ==
    IF i + 1 \in DOMAIN names /\ names[i + 1] # "" THEN names[i + 1] ELSE ""

\* the settings discoverer with the check of the required field left out
parseHttpSettingsFormFields_Unvalidated(body) ==
    LET names == HttpsMatchNames(body)
    IN  [fields |-> Ptr([certSelectField |-> CertSelectField(body),
                         httpsWebField |-> HttpsRole(names, 0),
                         httpsIppField |-> HttpsRole(names, 1)]),
         err |-> NoErr]

\* parseHttpSettingsFormFields: [fields, err]
parseHttpSettingsFormFields(body) ==
    LET certSelectField == CertSelectField(body)
        names == HttpsMatchNames(body)
    IN  IF certSelectField = "" THEN [fields |-> Nil, err |-> ErrSelectField]
        ELSE [fields |-> Ptr([certSelectField |-> certSelectField,
                              httpsWebField |-> HttpsRole(names, 0),
                              httpsIppField |-> HttpsRole(names, 1)]),
              err |-> NoErr]

\* parseBodyForCSRFToken: the token of the body, an error when it has none
parseBodyForCSRFToken(body) ==
    IF body.token = "" THEN [token |-> "", err |-> ErrCSRFToken]
    ELSE [token |-> body.token, err |-> NoErr]

----------------------------------------------------------------------------
(* The pages a device may serve *)

Hidden(n) ==
    Elem("input", << <<"type", "hidden">>, <<"id", n>>, <<"name", n>>, <<"value", "">> >>, "")

HiddenNameFirst(n) ==
    Elem("input", << <<"type", "hidden">>, <<"name", n>>, <<"id", n>>, <<"value", "">> >>, "")

\* a hidden input that carries a value: hiddenRegex does not match it
HiddenValued(n, v) ==
    Elem("input", << <<"type", "hidden">>, <<"id", n>>, <<"name", n>>, <<"value", v>> >>, "")

Select(n) == Elem("select", << <<"id", n>>, <<"name", n>> >>, "")

SelectNameFirst(n) == Elem("select", << <<"class", "sel">>, <<"name", n>>, <<"id", n>> >>, "")

\* a select with no name attribute: selectRegex does not match it
SelectIdOnly(n) == Elem("select", << <<"id", n>> >>, "")

Checkbox(n, text) ==
    Elem("input", << <<"type", "checkbox">>, <<"id", n>>, <<"name", n>>, <<"value", "1">>,
                     <<"checked", "checked">> >>, text)

FileInput(n) == Elem("input", << <<"type", "file">>, <<"id", n>>, <<"name", n>> >>, "")

PasswordInput(n) ==
    Elem("input", << <<"type", "password">>, <<"name", n>>, <<"maxlength", "32">> >>, "")

DeleteElems ==
    { <<>>,
      << HiddenValued("pageid", "383"), Hidden("hidden_certificate_idx"), Hidden("Bb0a") >>,
      << Hidden("Bb0a"), Hidden("CSRFToken1"), HiddenNameFirst("Bb1c"), Hidden("Bb2e") >> }

SettingsElems ==
    { << Checkbox("Ba8c", "HTTPS"), SelectIdOnly("Bb23") >>,
      << Select("Bb23"), Checkbox("Ba8c", "HTTPS"), Checkbox("Ba9e", "HTTPS") >>,
      << SelectNameFirst("B903"), Checkbox("B850", "HTTP"), Checkbox("B86c", "HTTPS") >>,
      << Select("Bb23") >> }

ImportElems ==
    { << Hidden("Bb0a"), Hidden("Bb18"), PasswordInput("Ba41") >>,
      << FileInput("Ba40"), Hidden("Bb0a") >>,
      << Hidden("Bb0a"), Hidden("hidden_cert_import_password"), Hidden("Bb18"),
         FileInput("Ba40"), PasswordInput("Ba41") >> }

\* bodies with a token and each of the element lists, and one body with no token
PagesOf(elemLists) ==
    { Body(t, es) : t \in Tokens, es \in elemLists } \cup { NoBody }

DeletePages == PagesOf(DeleteElems)
SettingsPages == PagesOf(SettingsElems)
ImportPages == PagesOf(ImportElems)
PlainPages == PagesOf({ <<>> })

\* what one round trip yields: httpClient.Do failing, or a status and, when the
\* status is OK, a body out of `pages` (the code uses no body of another answer)
Responses(pages) ==
    { [neterr |-> TRUE, status |-> 0, body |-> NoBody] }
    \cup { [neterr |-> FALSE, status |-> s, body |-> NoBody] : s \in Statuses \ {StatusOK} }
    \cup { [neterr |-> FALSE, status |-> StatusOK, body |-> b] : b \in pages }

\* the ID lists the device's certificate page may present for the set S:
\* every order, repeats allowed, up to MaxListLen entries
Listings(S) ==
    { s \in UNION { [1..n -> S] : n \in 0..MaxListLen } :
        { s[k] : k \in DOMAIN s } = S }

\* getCertIDs: the list of IDs the device presents, or an error
getCertIDs(S) ==
    { [ids |-> <<>>, err |-> ErrGetCertIDs] }
    \cup { [ids |-> l, err |-> NoErr] : l \in Listings(S) }

----------------------------------------------------------------------------
(* Pure pieces of the workflows *)

\* url.Values.Set
SetField(values, k, v) == { p \in values : p[1] # k } \cup { <<k, v>> }

\* data.Set(name, v) guarded by  if name != ""
SetIfFound(values, name, v) == IF name # "" THEN SetField(values, name, v) ELSE values

\* the argument check with the sentinel comparison left out
DeleteArgInvalid_SentinelAccepted(i) == i = ""

\* the argument check with the length test left out
DeleteArgInvalid_EmptyAccepted(i) == i = "0"

\* len(id) <= 0 || id == "0"
DeleteArgInvalid(i) == i = "" \/ i = "0"

\* the loop for _, existingID := range existingIDs { if existingID == id ... }
Contains(list, x) == \E k \in DOMAIN list : list[k] = x

\* the membership check answering yes for every ID
ValidID_Unchecked(list, x) == TRUE

\* validID after the first loop of DeleteCert
ValidID(list, x) == Contains(list, x)

\* resp.StatusCode != http.StatusOK
StatusNotOK(status) == status # StatusOK

\* the delete form that proposes whatever control it is asked for
DeleteForm_AlwaysPropose(token, fields, control, i) ==
    LET d1 == SetField(SetField({}, "pageid", "383"), "CSRFToken", token)
        d2 == SetIfFound(d1, fields.hiddenField1, "")
        d3 == SetIfFound(d2, fields.hiddenField2, "")
        d4 == SetField(d3, "hidden_certificate_process_control", "1")
    IN  SetField(d4, "hidden_certificate_idx", i)

\* the form of a delete POST: control "1" proposes, "2" confirms
DeleteForm(token, fields, control, i) ==
    LET d1 == SetField(SetField({}, "pageid", "383"), "CSRFToken", token)
        d2 == SetIfFound(d1, fields.hiddenField1, "")
        d3 == SetIfFound(d2, fields.hiddenField2, "")
        d4 == SetField(d3, "hidden_certificate_process_control", control)
    IN  SetField(d4, "hidden_certificate_idx", i)

\* the outcome with the second ID list never looked at
DeleteVerdict_Unverified(list, x) == NoErr

\* the outcome of DeleteCert once the second ID list is in: the second loop
DeleteVerdict(list, x) == IF Contains(list, x) THEN ErrStillExists ELSE NoErr

\* the first form with the checkbox roles set whether discovered or not
SetActiveForm_Unguarded(token, fields, i) ==
    LET d1 == SetField(SetField({}, "pageid", "326"), "CSRFToken", token)
        d2 == SetField(d1, fields.certSelectField, i)
        d3 == SetField(d2, fields.httpsWebField, "1")
    IN  SetField(d3, fields.httpsIppField, "1")

\* the first form of SetActiveCert
SetActiveForm(token, fields, i) ==
    LET d1 == SetField(SetField({}, "pageid", "326"), "CSRFToken", token)
        d2 == SetField(d1, fields.certSelectField, i)
        d3 == SetIfFound(d2, fields.httpsWebField, "1")
    IN  SetIfFound(d3, fields.httpsIppField, "1")

\* the confirmation form of SetActiveCert
ConfirmActiveForm(token) ==
    SetField(SetField(SetField({}, "pageid", "326"), "CSRFToken", token),
             "http_page_mode", "5")

\* formWriter.WriteField guarded by  if name != ""
WriteIfFound(ps, name, v) == IF name # "" THEN Append(ps, <<name, v>>) ELSE ps

\* the multipart form of UploadNewCert, in the order its parts are written
ImportForm(token, fields) ==
    LET p1 == << <<"pageid", "390">>, <<"CSRFToken", token>> >>
        p2 == WriteIfFound(p1, fields.hiddenField1, "")
        p3 == WriteIfFound(p2, fields.hiddenField2, "")
        p4 == Append(p3, <<"hidden_certificate_process_control", "1">>)
        p5 == Append(p4, <<fields.fileField, "certkey.p12">>)
        p6 == Append(p5, <<fields.passwordField, "">>)
    IN  Append(p6, <<"hidden_cert_import_password", "">>)

\* the loop over newCertIDs[1..n]: newId and countNew after n iterations
RECURSIVE ScanNew(_, _, _)
ScanNew(new, orig, n) ==
    IF n = 0 THEN [newId |-> "", countNew |-> 0]
    ELSE LET prev == ScanNew(new, orig, n - 1)
         IN  IF Contains(orig, new[n]) THEN prev
             ELSE [newId |-> new[n], countNew |-> prev.countNew + 1]

\* the search that returns the last new ID it saw however many there were
DeduceNewID_Guessing(new, orig) ==
    [val |-> ScanNew(new, orig, Len(new)).newId, err |-> NoErr]

\* the search that treats anything but exactly one new ID as a failure
DeduceNewID_Strict(new, orig) ==
    LET s == ScanNew(new, orig, Len(new))
    IN  IF s.countNew # 1 THEN [val |-> "", err |-> ErrDeduce]
        ELSE [val |-> s.newId, err |-> NoErr]

\* the search that hands back the last new ID along with the ambiguity error
DeduceNewID_Leaky(new, orig) ==
    LET s == ScanNew(new, orig, Len(new))
    IN  IF s.countNew > 1 THEN [val |-> s.newId, err |-> ErrDeduce]
        ELSE [val |-> s.newId, err |-> NoErr]

\* what UploadNewCert returns once the second ID list is in: [val, err]
DeduceNewID(new, orig) ==
    LET s == ScanNew(new, orig, Len(new))
    IN  IF s.countNew > 1 THEN [val |-> "", err |-> ErrDeduce]
        ELSE [val |-> s.newId, err |-> NoErr]

----------------------------------------------------------------------------
(* State *)

NoResult == [err |-> "pending", val |-> ""]

\* one entry of the log: a request with the answer it got, or the settle sleep
Event(kind, page, form, mparts, r) ==
    [kind |-> kind, page |-> page, form |-> form, parts |-> mparts,
     neterr |-> r.neterr, status |-> r.status]

ListEvent(r) ==
    Event("LIST", "list", {}, <<>>,
          [neterr |-> r.err # NoErr, status |-> IF r.err # NoErr THEN 0 ELSE StatusOK])

SleepEvent == Event("SLEEP", "", {}, <<>>, [neterr |-> FALSE, status |-> 0])

\* no second caller: the printer is used by one invocation at a time
SharedIdle ==
    /\ calls = <<>>
    /\ session = 0
    /\ serialised = TRUE
    /\ posts = {}

Init ==
    /\ certs \in SUBSET IDs
    /\ op = "none"
    /\ pc = "idle"
    /\ id = ""
    /\ bodyBytes = NoBody
    /\ csrfToken = ""
    /\ formFields = Nil
    /\ data = {}
    /\ parts = <<>>
    /\ existingIDs = <<>>
    /\ origCertIDs = <<>>
    /\ newCertIDs = <<>>
    /\ sent = <<>>
    /\ result = NoResult
    /\ startCerts = certs
    /\ SharedIdle

\* entry of a workflow: fresh locals, an empty log
Enter(o, i) ==
    /\ pc = "idle"
    /\ op' = o
    /\ id' = i
    /\ bodyBytes' = NoBody
    /\ csrfToken' = ""
    /\ formFields' = Nil
    /\ data' = {}
    /\ parts' = <<>>
    /\ existingIDs' = <<>>
    /\ origCertIDs' = <<>>
    /\ newCertIDs' = <<>>
    /\ sent' = <<>>
    /\ startCerts' = certs
    /\ UNCHANGED <<certs, sharedVars>>

\* return err (and val) to the caller
Finish(e, v) ==
    /\ pc' = "done"
    /\ result' = [err |-> e, val |-> v]

\* go on to the step `next`
Goto(next) ==
    /\ pc' = next
    /\ UNCHANGED result

----------------------------------------------------------------------------
(* DeleteCert *)

\* entry and the check of the argument
DeleteCall(i) ==
    /\ Enter("DeleteCert", i)
    /\ IF DeleteArgInvalid(i)
       THEN Finish(errCertDeleteInvalidID, "")
       ELSE Goto("d_list1")

\* existingIDs, err := p.getCertIDs() and the check that id is one of them
DeleteList1 ==
    /\ op = "DeleteCert" /\ pc = "d_list1"
    /\ \E r \in getCertIDs(certs) :
         /\ sent' = Append(sent, ListEvent(r))
         /\ IF r.err # NoErr
            THEN Finish(r.err, "") /\ UNCHANGED existingIDs
            ELSE /\ existingIDs' = r.ids
                 /\ IF ~ValidID(r.ids, id)
                    THEN Finish(errCertDeleteInvalidID, "")
                    ELSE Goto("d_get")
    /\ UNCHANGED <<sharedVars, formFields, bodyBytes, certs, op, id, csrfToken, data, parts, origCertIDs, newCertIDs,
                   startCerts>>

\* GET of the delete page, token and fields out of it, the propose form
DeleteGet ==
    /\ op = "DeleteCert" /\ pc = "d_get"
    /\ \E r \in Responses(DeletePages) :
         /\ sent' = Append(sent, Event("GET", "delete", {<<"idx", id>>}, <<>>, r))
         /\ bodyBytes' = IF r.neterr THEN bodyBytes ELSE r.body
         /\ IF r.neterr
            THEN Finish(ErrTransport, "") /\ UNCHANGED <<csrfToken, formFields, data>>
            ELSE IF StatusNotOK(r.status)
            THEN Finish(ErrGetDeletePage, "") /\ UNCHANGED <<csrfToken, formFields, data>>
            ELSE LET tok == parseBodyForCSRFToken(r.body)
                     ff == parseDeleteFormFields(r.body)
                 IN  IF tok.err # NoErr
                     THEN Finish(tok.err, "") /\ UNCHANGED <<csrfToken, formFields, data>>
                     ELSE IF ff.err # NoErr
                     THEN /\ Finish(ff.err, "")
                          /\ csrfToken' = tok.token
                          /\ formFields' = ff.fields
                          /\ UNCHANGED data
                     ELSE /\ csrfToken' = tok.token
                          /\ formFields' = ff.fields
                          /\ data' = DeleteForm(tok.token, Deref(ff.fields), "1", id)
                          /\ Goto("d_post1")
    /\ UNCHANGED <<sharedVars, certs, op, id, parts, existingIDs, origCertIDs, newCertIDs,
                   startCerts>>

\* the propose POST, token and fields out of its answer, the confirm form
DeletePost1 ==
    /\ op = "DeleteCert" /\ pc = "d_post1"
    /\ \E r \in Responses(DeletePages) :
         /\ sent' = Append(sent, Event("POST", "delete", data, <<>>, r))
         /\ bodyBytes' = IF r.neterr THEN bodyBytes ELSE r.body
         /\ IF r.neterr
            THEN Finish(ErrTransport, "") /\ UNCHANGED <<csrfToken, data>>
            ELSE IF StatusNotOK(r.status)
            THEN Finish(ErrPostDelete, "") /\ UNCHANGED <<csrfToken, data>>
            ELSE LET tok == parseBodyForCSRFToken(r.body)
                     ff == parseDeleteFormFields(r.body)
                 IN  IF tok.err # NoErr
                     THEN Finish(tok.err, "") /\ UNCHANGED <<csrfToken, data>>
                     ELSE IF ff.err # NoErr
                     THEN /\ Finish(ff.err, "")
                          /\ csrfToken' = tok.token
                          /\ UNCHANGED data
                     ELSE /\ csrfToken' = tok.token
                          /\ data' = DeleteForm(tok.token, Deref(ff.fields), "2", id)
                          /\ Goto("d_post2")
    /\ UNCHANGED <<sharedVars, formFields, certs, op, id, parts, existingIDs, origCertIDs, newCertIDs,
                   startCerts>>

\* what the device does with a confirmed delete of certificate x: it has
\* removed x by the end of the settle interval, or it has not
DeviceDelete(S, x, r) ==
    IF ~r.neterr /\ r.status = StatusOK THEN { S, S \ {x} } ELSE { S }

\* the confirm POST; its answer's body is discarded and its status is not read
DeletePost2 ==
    /\ op = "DeleteCert" /\ pc = "d_post2"
    /\ \E r \in Responses({NoBody}) :
         /\ sent' = Append(sent, Event("POST", "delete", data, <<>>, r))
         /\ certs' \in DeviceDelete(certs, id, r)
         /\ IF r.neterr
            THEN Finish(ErrTransport, "")
            ELSE Goto("d_settle")
    /\ UNCHANGED <<sharedVars, formFields, bodyBytes, op, id, csrfToken, data, parts, existingIDs, origCertIDs,
                   newCertIDs, startCerts>>

\* time.Sleep(10 * time.Second)
DeleteSettle ==
    /\ op = "DeleteCert" /\ pc = "d_settle"
    /\ sent' = Append(sent, SleepEvent)
    /\ Goto("d_list2")
    /\ UNCHANGED <<sharedVars, formFields, bodyBytes, certs, op, id, csrfToken, data, parts, existingIDs, origCertIDs,
                   newCertIDs, startCerts>>

\* the second getCertIDs and the check that id is gone
DeleteList2 ==
    /\ op = "DeleteCert" /\ pc = "d_list2"
    /\ \E r \in getCertIDs(certs) :
         /\ sent' = Append(sent, ListEvent(r))
         /\ IF r.err # NoErr
            THEN Finish(r.err, "") /\ UNCHANGED existingIDs
            ELSE /\ existingIDs' = r.ids
                 /\ Finish(DeleteVerdict(r.ids, id), "")
    /\ UNCHANGED <<sharedVars, formFields, bodyBytes, certs, op, id, csrfToken, data, parts, origCertIDs, newCertIDs,
                   startCerts>>

----------------------------------------------------------------------------
(* SetActiveCert *)

SetActiveCall(i) ==
    /\ Enter("SetActiveCert", i)
    /\ Goto("s_get")

\* getHttpSettings, token and fields out of the page, the first form
SetActiveGet ==
    /\ op = "SetActiveCert" /\ pc = "s_get"
    /\ \E r \in Responses(SettingsPages) :
         /\ sent' = Append(sent, Event("GET", "settings", {}, <<>>, r))
         /\ bodyBytes' = IF r.neterr THEN bodyBytes ELSE r.body
         /\ IF r.neterr
            THEN Finish(ErrTransport, "") /\ UNCHANGED <<csrfToken, formFields, data>>
            ELSE IF StatusNotOK(r.status)
            THEN Finish(ErrGetSettingsPage, "") /\ UNCHANGED <<csrfToken, formFields, data>>
            ELSE LET tok == parseBodyForCSRFToken(r.body)
                     ff == parseHttpSettingsFormFields(r.body)
                 IN  IF tok.err # NoErr
                     THEN Finish(tok.err, "") /\ UNCHANGED <<csrfToken, formFields, data>>
                     ELSE IF ff.err # NoErr
                     THEN /\ Finish(ff.err, "")
                          /\ csrfToken' = tok.token
                          /\ formFields' = ff.fields
                          /\ UNCHANGED data
                     ELSE /\ csrfToken' = tok.token
                          /\ formFields' = ff.fields
                          /\ data' = SetActiveForm(tok.token, Deref(ff.fields), id)
                          /\ Goto("s_post1")
    /\ UNCHANGED <<sharedVars, certs, op, id, parts, existingIDs, origCertIDs, newCertIDs,
                   startCerts>>

\* the first POST with the confirmation form built from the token of the page
\* fetched first, not from the token of the answer
SetActivePost1_StaleToken ==
    /\ op = "SetActiveCert" /\ pc = "s_post1"
    /\ \E r \in Responses(PlainPages) :
         /\ sent' = Append(sent, Event("POST", "settings", data, <<>>, r))
         /\ bodyBytes' = IF r.neterr THEN bodyBytes ELSE r.body
         /\ IF r.neterr
            THEN Finish(ErrTransport, "") /\ UNCHANGED <<csrfToken, data>>
            ELSE IF StatusNotOK(r.status)
            THEN Finish(ErrPostSetActive, "") /\ UNCHANGED <<csrfToken, data>>
            ELSE LET tok == parseBodyForCSRFToken(r.body)
                 IN  IF tok.err # NoErr
                     THEN Finish(tok.err, "") /\ UNCHANGED <<csrfToken, data>>
                     ELSE /\ csrfToken' = tok.token
                          /\ data' = ConfirmActiveForm(csrfToken)
                          /\ Goto("s_post2")
    /\ UNCHANGED <<sharedVars, formFields, certs, op, id, parts, existingIDs, origCertIDs, newCertIDs,
                   startCerts>>

\* the first POST, the next token out of its answer, the confirmation form
SetActivePost1 ==
    /\ op = "SetActiveCert" /\ pc = "s_post1"
    /\ \E r \in Responses(PlainPages) :
         /\ sent' = Append(sent, Event("POST", "settings", data, <<>>, r))
         /\ bodyBytes' = IF r.neterr THEN bodyBytes ELSE r.body
         /\ IF r.neterr
            THEN Finish(ErrTransport, "") /\ UNCHANGED <<csrfToken, data>>
            ELSE IF StatusNotOK(r.status)
            THEN Finish(ErrPostSetActive, "") /\ UNCHANGED <<csrfToken, data>>
            ELSE LET tok == parseBodyForCSRFToken(r.body)
                 IN  IF tok.err # NoErr
                     THEN Finish(tok.err, "") /\ UNCHANGED <<csrfToken, data>>
                     ELSE /\ csrfToken' = tok.token
                          /\ data' = ConfirmActiveForm(tok.token)
                          /\ Goto("s_post2")
    /\ UNCHANGED <<sharedVars, formFields, certs, op, id, parts, existingIDs, origCertIDs, newCertIDs,
                   startCerts>>

\* the confirmation POST; its answer's body is discarded
SetActivePost2 ==
    /\ op = "SetActiveCert" /\ pc = "s_post2"
    /\ \E r \in Responses({NoBody}) :
         /\ sent' = Append(sent, Event("POST", "settings", data, <<>>, r))
         /\ IF r.neterr
            THEN Finish(ErrTransport, "")
            ELSE IF StatusNotOK(r.status)
            THEN Finish(ErrPostSetActive, "")
            ELSE Finish(NoErr, "")
    /\ UNCHANGED <<sharedVars, formFields, bodyBytes, certs, op, id, csrfToken, data, parts, existingIDs, origCertIDs,
                   newCertIDs, startCerts>>

----------------------------------------------------------------------------
(* UploadNewCert *)

\* entry and makeModernPfx, which fails on a key and certificate it cannot pack
UploadCall(pemOK) ==
    /\ Enter("UploadNewCert", "")
    /\ IF ~pemOK
       THEN Finish(ErrMakeP12, "")
       ELSE Goto("u_list1")

\* origCertIDs, err := p.getCertIDs()
UploadList1 ==
    /\ op = "UploadNewCert" /\ pc = "u_list1"
    /\ \E r \in getCertIDs(certs) :
         /\ sent' = Append(sent, ListEvent(r))
         /\ IF r.err # NoErr
            THEN Finish(r.err, "") /\ UNCHANGED origCertIDs
            ELSE origCertIDs' = r.ids /\ Goto("u_get")
    /\ UNCHANGED <<sharedVars, formFields, bodyBytes, certs, op, id, csrfToken, data, parts, existingIDs, newCertIDs,
                   startCerts>>

\* GET of the import page, token and fields out of it, the multipart form
UploadGet ==
    /\ op = "UploadNewCert" /\ pc = "u_get"
    /\ \E r \in Responses(ImportPages) :
         /\ sent' = Append(sent, Event("GET", "import", {}, <<>>, r))
         /\ bodyBytes' = IF r.neterr THEN bodyBytes ELSE r.body
         /\ IF r.neterr
            THEN Finish(ErrTransport, "") /\ UNCHANGED <<csrfToken, formFields, parts>>
            ELSE IF StatusNotOK(r.status)
            THEN Finish(ErrGetImportPage, "") /\ UNCHANGED <<csrfToken, formFields, parts>>
            ELSE LET tok == parseBodyForCSRFToken(r.body)
                     ff == parseImportFormFields(r.body)
                 IN  IF tok.err # NoErr
                     THEN Finish(tok.err, "") /\ UNCHANGED <<csrfToken, formFields, parts>>
                     ELSE IF ff.err # NoErr
                     THEN /\ Finish(ff.err, "")
                          /\ csrfToken' = tok.token
                          /\ formFields' = ff.fields
                          /\ UNCHANGED parts
                     ELSE /\ csrfToken' = tok.token
                          /\ formFields' = ff.fields
                          /\ parts' = ImportForm(tok.token, Deref(ff.fields))
                          /\ Goto("u_post")
    /\ UNCHANGED <<sharedVars, certs, op, id, data, existingIDs, origCertIDs, newCertIDs,
                   startCerts>>

\* what the device holds at the end of the settle interval after an import it
\* answered with OK: any number of IDs may have appeared and any may be gone
DeviceImport(S, r) ==
    IF ~r.neterr /\ r.status = StatusOK THEN SUBSET IDs ELSE { S }

\* the POST of the multipart form; its answer's body is discarded
UploadPost ==
    /\ op = "UploadNewCert" /\ pc = "u_post"
    /\ \E r \in Responses({NoBody}) :
         /\ sent' = Append(sent, Event("POST", "import", {}, parts, r))
         /\ certs' \in DeviceImport(certs, r)
         /\ IF r.neterr
            THEN Finish(ErrTransport, "")
            ELSE IF StatusNotOK(r.status)
            THEN Finish(ErrPostImport, "")
            ELSE Goto("u_settle")
    /\ UNCHANGED <<sharedVars, formFields, bodyBytes, op, id, csrfToken, data, parts, existingIDs, origCertIDs,
                   newCertIDs, startCerts>>

\* time.Sleep(10 * time.Second)
UploadSettle ==
    /\ op = "UploadNewCert" /\ pc = "u_settle"
    /\ sent' = Append(sent, SleepEvent)
    /\ Goto("u_list2")
    /\ UNCHANGED <<sharedVars, formFields, bodyBytes, certs, op, id, csrfToken, data, parts, existingIDs, origCertIDs,
                   newCertIDs, startCerts>>

\* newCertIDs, err := p.getCertIDs() and the search for the new ID
UploadList2 ==
    /\ op = "UploadNewCert" /\ pc = "u_list2"
    /\ \E r \in getCertIDs(certs) :
         /\ sent' = Append(sent, ListEvent(r))
         /\ IF r.err # NoErr
            THEN Finish(r.err, "") /\ UNCHANGED newCertIDs
            ELSE /\ newCertIDs' = r.ids
                 /\ LET res == DeduceNewID(r.ids, origCertIDs)
                    IN  Finish(res.err, res.val)
    /\ UNCHANGED <<sharedVars, formFields, bodyBytes, certs, op, id, csrfToken, data, parts, existingIDs, origCertIDs,
                   startCerts>>

----------------------------------------------------------------------------
(* The caller *)

\* the caller takes the result; the printer is idle again
Return ==
    /\ pc = "done"
    /\ pc' = "idle"
    /\ op' = "none"
    /\ id' = ""
    /\ bodyBytes' = NoBody
    /\ csrfToken' = ""
    /\ formFields' = Nil
    /\ data' = {}
    /\ parts' = <<>>
    /\ existingIDs' = <<>>
    /\ origCertIDs' = <<>>
    /\ newCertIDs' = <<>>
    /\ sent' = <<>>
    /\ result' = NoResult
    /\ startCerts' = certs
    /\ UNCHANGED <<certs, sharedVars>>

Next ==
    \/ \E i \in ArgIDs : DeleteCall(i)
    \/ DeleteList1
    \/ DeleteGet
    \/ DeletePost1
    \/ DeletePost2
    \/ DeleteSettle
    \/ DeleteList2
    \/ \E i \in ArgIDs : SetActiveCall(i)
    \/ SetActiveGet
    \/ SetActivePost1
    \/ SetActivePost2
    \/ \E ok \in BOOLEAN : UploadCall(ok)
    \/ UploadList1
    \/ UploadGet
    \/ UploadPost
    \/ UploadSettle
    \/ UploadList2
    \/ Return

Spec == Init /\ [][Next]_vars

----------------------------------------------------------------------------
(* Vocabulary of the properties *)

Range(s) == { s[k] : k \in DOMAIN s }

\* the kinds of the logged events, in order
Kinds == [k \in DOMAIN sent |-> sent[k].kind]

IsRequest(e) == e.kind # "SLEEP"

\* the request was answered, with status OK
Succeeded(e) == ~e.neterr /\ e.status = StatusOK

\* the request was answered, with a status other than OK
Refused(e) == ~e.neterr /\ e.status # StatusOK

NoRequestSent == \A k \in DOMAIN sent : ~IsRequest(sent[k])

NoPageRequestSent == \A k \in DOMAIN sent : sent[k].kind \notin {"GET", "POST"}

NoPostSent == \A k \in DOMAIN sent : sent[k].kind # "POST"

AllRequestsSucceeded == \A k \in DOMAIN sent : IsRequest(sent[k]) => Succeeded(sent[k])

Returned(e) == pc = "done" /\ result.err = e

\* the IDs of the post snapshot of UploadNewCert that the baseline lacks
NewIDs == Range(newCertIDs) \ Range(origCertIDs)

\* DeleteCert ran through its second ID-list fetch and every request succeeded
DeleteRanThrough ==
    /\ op = "DeleteCert" /\ pc = "done"
    /\ Kinds = <<"LIST", "GET", "POST", "POST", "SLEEP", "LIST">>
    /\ AllRequestsSucceeded

\* UploadNewCert ran through its second ID-list fetch and every request succeeded
UploadRanThrough ==
    /\ op = "UploadNewCert" /\ pc = "done"
    /\ Kinds = <<"LIST", "GET", "POST", "SLEEP", "LIST">>
    /\ AllRequestsSucceeded

----------------------------------------------------------------------------
(* Properties *)

\* C1: DeleteCert called with the empty ID or with "0" has returned the
\* validation error and its log holds no request at all.
C1_SentinelRejectedWithoutIO ==
    (op = "DeleteCert" /\ id \in {"", "0"})
        => Returned(errCertDeleteInvalidID) /\ NoRequestSent

C1_Witness ==
    op = "DeleteCert" /\ id = "0" /\ Returned(errCertDeleteInvalidID) /\ sent = <<>>

\* C2 as stated: whenever DeleteCert has returned the validation error, for
\* whichever cause, the invocation has performed no network I/O.
C2_ValidationBeforeAnyIO ==
    (op = "DeleteCert" /\ Returned(errCertDeleteInvalidID)) => NoRequestSent

\* C2 amended: a validation error for the empty ID or "0" is returned with no
\* request in the log; a validation error for any other ID is returned after
\* exactly one request, the successful fetch of an ID list that lacks the ID,
\* and so before any GET or POST to the delete page.
C2_ValidationBeforePageIO ==
    (op = "DeleteCert" /\ Returned(errCertDeleteInvalidID))
        => IF id \in {"", "0"}
           THEN sent = <<>>
           ELSE /\ Kinds = <<"LIST">>
                /\ Succeeded(sent[1])
                /\ ~Contains(existingIDs, id)

C2_Witness ==
    /\ op = "DeleteCert" /\ Returned(errCertDeleteInvalidID)
    /\ id \notin {"", "0"}
    /\ Kinds = <<"LIST">>

\* C3: once the first ID list of a DeleteCert for a non-empty, non-"0" ID is
\* in and lacks that ID, the invocation has returned the invalid-ID error, its
\* log holds that one fetch only (no GET, no POST) and the device's
\* certificate set is the one it had when the call began.
C3_AbsentIDRejected ==
    ( /\ op = "DeleteCert" /\ id \notin {"", "0"}
      /\ Kinds = <<"LIST">> /\ Succeeded(sent[1])
      /\ ~Contains(existingIDs, id) )
        => /\ Returned(errCertDeleteInvalidID)
           /\ NoPageRequestSent
           /\ certs = startCerts

C3_Witness ==
    /\ op = "DeleteCert" /\ id = "3"
    /\ Kinds = <<"LIST">> /\ Succeeded(sent[1])
    /\ Range(existingIDs) = {"1", "2"}
    /\ pc = "done"

\* C4: a DeleteCert in which every request succeeded returns nil exactly when
\* the ID list fetched after the settle delay lacks the target ID, and returns
\* the 'still exists' error when that list holds it.
C4_VerdictFromPostSettleList ==
    DeleteRanThrough
        => /\ (result.err = NoErr) <=> ~Contains(existingIDs, id)
           /\ Contains(existingIDs, id) => result.err = ErrStillExists

C4_Witness ==
    /\ DeleteRanThrough /\ id = "2"
    /\ startCerts = {"1", "2", "3"}
    /\ Range(existingIDs) = {"1", "3"}
    /\ result.err = NoErr

\* C5: a GET or POST answered with a status other than 200 is the last event
\* of its invocation, which has returned an error.
C5_RefusedRequestEndsInvocation ==
    \A k \in DOMAIN sent :
        (sent[k].kind \in {"GET", "POST"} /\ Refused(sent[k]))
            => k = Len(sent) /\ pc = "done" /\ result.err # NoErr

\* C6: DeleteCert returns the 'still exists' error only when both of its
\* POSTs were answered with status OK.
C6_StillExistsOnlyAfterAcceptedPosts ==
    (op = "DeleteCert" /\ Returned(ErrStillExists))
        => \A k \in DOMAIN sent : sent[k].kind = "POST" => Succeeded(sent[k])

\* C7: an UploadNewCert in which every request succeeded and whose post
\* snapshot, as a set, holds exactly one ID c the baseline lacks returns c
\* with no error.
C7_SingleNewIDReturned ==
    (UploadRanThrough /\ Cardinality(NewIDs) = 1)
        => result.err = NoErr /\ NewIDs = {result.val}

\* C8: when the post snapshot of UploadNewCert holds two or more distinct IDs
\* the baseline lacks, UploadNewCert returns the ambiguity error with an
\* empty ID.
C8_AmbiguityReported ==
    (UploadRanThrough /\ Cardinality(NewIDs) >= 2)
        => result = [err |-> ErrDeduce, val |-> ""]

C8_Witness ==
    /\ UploadRanThrough
    /\ Range(origCertIDs) = {"1"}
    /\ Range(newCertIDs) = {"1", "2", "3"}
    /\ result.err = ErrDeduce

\* C9: an UploadNewCert in which every request succeeded and whose post
\* snapshot holds no ID the baseline lacks returns the empty ID with no error.
C9_NoNewIDReturnsEmpty ==
    (UploadRanThrough /\ NewIDs = {})
        => result = [err |-> NoErr, val |-> ""]

C9_Witness ==
    /\ UploadRanThrough
    /\ Range(origCertIDs) = {"1", "2"}
    /\ Range(newCertIDs) = {"1", "2"}
    /\ result = [err |-> NoErr, val |-> ""]

\* the page read last lacks a required role of the running workflow
RequiredRoleMissing ==
    \/ /\ op = "SetActiveCert"
       /\ CertSelectField(bodyBytes) = ""
    \/ /\ op = "UploadNewCert"
       /\ \/ FirstTyped(bodyBytes, "file") = ""
          \/ FirstTyped(bodyBytes, "password") = ""

\* the discoverer of the running workflow applied to the page read last
Discovered ==
    IF op = "SetActiveCert" THEN parseHttpSettingsFormFields(bodyBytes)
    ELSE parseImportFormFields(bodyBytes)

\* C10: once SetActiveCert or UploadNewCert has read its page with status OK
\* and a token, and the page lacks a required role (the certificate selector;
\* the file or the password field), the discoverer yields an error and no
\* field set, and the invocation has returned that error with no POST sent.
C10_MissingRoleAborts ==
    ( /\ op \in {"SetActiveCert", "UploadNewCert"}
      /\ sent # <<>>
      /\ sent[Len(sent)].kind = "GET" /\ Succeeded(sent[Len(sent)])
      /\ parseBodyForCSRFToken(bodyBytes).err = NoErr
      /\ RequiredRoleMissing )
        => /\ Discovered.fields = Nil
           /\ Discovered.err \in {ErrSelectField, ErrFileField, ErrPasswordField}
           /\ Returned(Discovered.err)
           /\ NoPostSent

C10_Witness ==
    /\ op = "SetActiveCert"
    /\ Kinds = <<"GET">> /\ Succeeded(sent[1])
    /\ bodyBytes.token # ""
    /\ CertSelectField(bodyBytes) = ""
    /\ Returned(ErrSelectField)

----------------------------------------------------------------------------
(* Properties of the forms submitted *)

\* the value the form carries for key k, "" when it has no such key
FormValue(form, k) ==
    IF \E p \in form : p[1] = k THEN (CHOOSE p \in form : p[1] = k)[2] ELSE ""

FormKeys(form) == { p[1] : p \in form }

\* the names a settings page of the device may give its certificate selector
SelectorNames == { CertSelectField(b) : b \in SettingsPages } \ {""}

\* C11: no POST of DeleteCert carries "0" as hidden_certificate_idx and no
\* POST of SetActiveCert carries "0" as the value of the certificate selector.
C11_SentinelNeverTargeted ==
    \A k \in DOMAIN sent :
        sent[k].kind = "POST" =>
            /\ op = "DeleteCert" => <<"hidden_certificate_idx", "0">> \notin sent[k].form
            /\ op = "SetActiveCert" => \A n \in SelectorNames : <<n, "0">> \notin sent[k].form

\* the CSRF tokens a logged request carries
TokensCarried(e) ==
    { p[2] : p \in { q \in e.form : q[1] = "CSRFToken" } }
    \cup { e.parts[k][2] : k \in { j \in DOMAIN e.parts : e.parts[j][1] = "CSRFToken" } }

\* C12: every step that issues a form POST submits exactly one CSRF token,
\* the one in the page body the invocation read last before that POST.
C12_FreshTokenPosted ==
    [][ (Len(sent') = Len(sent) + 1 /\ sent'[Len(sent')].kind = "POST")
          => /\ bodyBytes.token # ""
             /\ TokensCarried(sent'[Len(sent')]) = {bodyBytes.token} ]_vars

C12_Witness ==
    /\ op = "SetActiveCert"
    /\ Kinds = <<"GET", "POST", "POST">>
    /\ TokensCarried(sent[2]) = {"t1"}
    /\ TokensCarried(sent[3]) = {"t2"}

----------------------------------------------------------------------------
(* The discoverers on their own: a page is drawn, one discoverer is applied to
   it, and what it returned is kept in formFields and result.err *)

\* most elements on a page
MaxElems == 4

ElemPool ==
    { Checkbox("Ba8c", "HTTPS"), Checkbox("Ba9e", "HTTPS"), Checkbox("Bab0", "HTTPS"),
      Select("Bb23"),
      Hidden("Bb0a"), HiddenNameFirst("Bb1c"), Hidden("hidden_certificate_idx"),
      Hidden("hidden_cert_import_password"),
      FileInput("Ba40"), PasswordInput("Ba41") }

\* the element lists of up to MaxElems elements of the pool, none used twice
ElemLists ==
    { es \in UNION { [1..n -> ElemPool] : n \in 0..MaxElems } :
        \A a, b \in DOMAIN es : a # b => es[a] # es[b] }

DiscoverPages == { Body("t1", es) : es \in ElemLists }

DiscoverInit ==
    /\ bodyBytes \in DiscoverPages
    /\ pc = "page"
    /\ op = "none"
    /\ certs = {}
    /\ id = ""
    /\ csrfToken = ""
    /\ formFields = Nil
    /\ data = {}
    /\ parts = <<>>
    /\ existingIDs = <<>>
    /\ origCertIDs = <<>>
    /\ newCertIDs = <<>>
    /\ sent = <<>>
    /\ result = NoResult
    /\ startCerts = {}
    /\ SharedIdle

\* the call discoverer(bodyBytes), r being what it returns
Discover(name, r) ==
    /\ pc = "page"
    /\ pc' = "discovered"
    /\ op' = name
    /\ formFields' = r.fields
    /\ result' = [err |-> r.err, val |-> ""]
    /\ UNCHANGED <<certs, id, bodyBytes, csrfToken, data, parts, existingIDs,
                   origCertIDs, newCertIDs, sent, startCerts, sharedVars>>

DiscoverDelete == Discover("parseDeleteFormFields", parseDeleteFormFields(bodyBytes))

DiscoverImport == Discover("parseImportFormFields", parseImportFormFields(bodyBytes))

DiscoverSettings ==
    Discover("parseHttpSettingsFormFields", parseHttpSettingsFormFields(bodyBytes))

DiscoverNext ==
    \/ DiscoverDelete
    \/ DiscoverImport
    \/ DiscoverSettings

DiscoverSpec == DiscoverInit /\ [][DiscoverNext]_vars

\* the positions in the body of the elements httpsCheckboxRegex matches
HttpsPositions(body) ==
    { k \in DOMAIN body.elems : CheckboxCaptures(body.elems[k]) # {} }

\* the k-th smallest member of the set of numbers S
RECURSIVE Nth(_, _)
Nth(S, k) ==
    LET m == CHOOSE x \in S : \A y \in S : x <= y
    IN  IF k = 1 THEN m ELSE Nth(S \ {m}, k - 1)

\* the body with its first two matching HTTPS checkboxes exchanged
SwapFirstTwo(body) ==
    LET x == Nth(HttpsPositions(body), 1)
        y == Nth(HttpsPositions(body), 2)
    IN  Body(body.token,
             [k \in DOMAIN body.elems |->
                IF k = x THEN body.elems[y]
                ELSE IF k = y THEN body.elems[x]
                ELSE body.elems[k]])

\* the name the page gives the element at position k
NameAt(body, k) == FieldNameOf(CHOOSE m \in CheckboxCaptures(body.elems[k]) : TRUE)

\* C13: when the settings discoverer succeeds on a body whose matching HTTPS
\* checkboxes are, in document order, X, Y and possibly more, it names X for
\* the web role and Y for the IPP role, no later match gets a role, and on
\* the body with X and Y exchanged it names Y for web and X for IPP.
C13_OrdinalMapping ==
    ( /\ pc = "discovered" /\ op = "parseHttpSettingsFormFields"
      /\ result.err = NoErr
      /\ Cardinality(HttpsPositions(bodyBytes)) >= 2 )
        => LET hp == HttpsPositions(bodyBytes)
               X == NameAt(bodyBytes, Nth(hp, 1))
               Y == NameAt(bodyBytes, Nth(hp, 2))
               f == Deref(formFields)
               g == Deref(parseHttpSettingsFormFields(SwapFirstTwo(bodyBytes)).fields)
           IN  /\ f.httpsWebField = X /\ f.httpsIppField = Y
               /\ g.httpsWebField = Y /\ g.httpsIppField = X
               /\ \A k \in hp : k > Nth(hp, 2) =>
                      NameAt(bodyBytes, k) \notin {f.httpsWebField, f.httpsIppField}

C13_Witness ==
    /\ pc = "discovered" /\ op = "parseHttpSettingsFormFields"
    /\ result.err = NoErr
    /\ Cardinality(HttpsPositions(bodyBytes)) = 3
    /\ Deref(formFields).httpsWebField = "Ba9e"
    /\ Deref(formFields).httpsIppField = "Ba8c"

----------------------------------------------------------------------------
(* Two invocations against one Printer.  The device issues a new CSRF token
   with every page it serves and honours only the token issued last; each
   invocation posts the token it extracted from the body it read last. *)

Callers == {1, 2}

Workflows == {"DeleteCert", "SetActiveCert", "UploadNewCert"}

\* the round trips of one invocation in the order the code makes them
Steps(o) ==
    IF o = "DeleteCert" THEN <<"LIST", "GET", "POST", "POST", "SLEEP", "LIST">>
    ELSE IF o = "SetActiveCert" THEN <<"GET", "POST", "POST">>
    ELSE <<"LIST", "GET", "POST", "SLEEP", "LIST">>

\* only the GET is followed by a token extraction
ReadsToken_GetOnly(o, k) == Steps(o)[k] = "GET"

\* the responses from which the caller extracts a token: the form page, and
\* the answer to a POST that a second POST follows
ReadsToken(o, k) ==
    \/ Steps(o)[k] = "GET"
    \/ /\ Steps(o)[k] = "POST"
       /\ k < Len(Steps(o))
       /\ Steps(o)[k + 1] = "POST"

NotCalled == [op |-> "none", step |-> 0, token |-> 0]

ConcInit ==
    /\ calls = [c \in Callers |-> NotCalled]
    /\ session = 0
    /\ serialised \in BOOLEAN
    /\ posts = {}
    /\ certs = {}
    /\ op = "none"
    /\ pc = "shared"
    /\ id = ""
    /\ bodyBytes = NoBody
    /\ csrfToken = ""
    /\ formFields = Nil
    /\ data = {}
    /\ parts = <<>>
    /\ existingIDs = <<>>
    /\ origCertIDs = <<>>
    /\ newCertIDs = <<>>
    /\ sent = <<>>
    /\ result = NoResult
    /\ startCerts = {}

Running(c) == calls[c].op # "none" /\ calls[c].step <= Len(Steps(calls[c].op))

\* caller c is at a round trip of the given kind
At(c, kind) == Running(c) /\ Steps(calls[c].op)[calls[c].step] = kind

\* the token c holds once the response to its current round trip is read
TokenRead(c, issued) ==
    IF ReadsToken(calls[c].op, calls[c].step) THEN issued ELSE calls[c].token

Advance(c, tok) ==
    calls' = [calls EXCEPT ![c].step = @ + 1, ![c].token = tok]

\* a caller enters a workflow; serialised callers wait for the other to return
ConcCall(c, o) ==
    /\ calls[c].op = "none"
    /\ serialised => \A d \in Callers \ {c} : ~Running(d)
    /\ calls' = [calls EXCEPT ![c] = [op |-> o, step |-> 1, token |-> 0]]
    /\ UNCHANGED <<workVars, session, serialised, posts>>

ConcList(c) ==
    /\ At(c, "LIST")
    /\ Advance(c, calls[c].token)
    /\ UNCHANGED <<workVars, session, serialised, posts>>

ConcSleep(c) ==
    /\ At(c, "SLEEP")
    /\ Advance(c, calls[c].token)
    /\ UNCHANGED <<workVars, session, serialised, posts>>

\* the form page is served with a newly issued token
ConcGet(c) ==
    /\ At(c, "GET")
    /\ session' = session + 1
    /\ Advance(c, TokenRead(c, session + 1))
    /\ UNCHANGED <<workVars, serialised, posts>>

\* the POST carries the caller's token; the page answering it brings a new one
ConcPost(c) ==
    /\ At(c, "POST")
    /\ posts' = posts \cup {[caller |-> c, step |-> calls[c].step,
                             token |-> calls[c].token, current |-> session]}
    /\ session' = session + 1
    /\ Advance(c, TokenRead(c, session + 1))
    /\ UNCHANGED <<workVars, serialised>>

ConcNext ==
    \/ \E c \in Callers, o \in Workflows : ConcCall(c, o)
    \/ \E c \in Callers : ConcList(c)
    \/ \E c \in Callers : ConcGet(c)
    \/ \E c \in Callers : ConcPost(c)
    \/ \E c \in Callers : ConcSleep(c)

ConcSpec == ConcInit /\ [][ConcNext]_vars

StalePost == \E p \in posts : p.token # p.current

\* C14: when the two invocations are serialised every POST carries the
\* device's current token; interleaved at request granularity, a POST whose
\* token the device has since replaced is reachable (C14_Witness).
C14_SerialisedNeverStale == (pc = "shared" /\ serialised) => ~StalePost

C14_Witness ==
    /\ pc = "shared"
    /\ ~serialised
    /\ StalePost
    /\ \A c \in Callers : calls[c].op # "none"

\* serialised, both callers ran to the end and each POST was current
C14_SerialisedWitness ==
    /\ pc = "shared"
    /\ serialised
    /\ \A c \in Callers : calls[c].op = "DeleteCert" /\ ~Running(c)
    /\ Cardinality(posts) = 4

----------------------------------------------------------------------------
(* Properties of what is returned and of the order of the requests *)

\* C15: no workflow returns a partial success: whenever an invocation has
\* returned an error, the ID it returned is empty; in particular
\* UploadNewCert never returns a non-empty ID together with an error.
C15_NoPartialSuccess ==
    (pc = "done" /\ result.err # NoErr) => result.val = ""

C15_Witness ==
    /\ op = "UploadNewCert"
    /\ pc = "done"
    /\ origCertIDs = <<>>
    /\ Range(newCertIDs) = {"1", "2"}
    /\ result = [err |-> ErrDeduce, val |-> ""]

\* the values a form holds under key k
FormValues(form, k) == { p[2] : p \in { q \in form : q[1] = k } }

IsPrefix(s, t) == Len(s) <= Len(t) /\ \A k \in DOMAIN s : s[k] = t[k]

DeleteOrder == <<"LIST", "GET", "POST", "POST", "SLEEP", "LIST">>

\* C17: the requests of DeleteCert occur in the order ID list, GET of the
\* delete page for the target ID, propose POST (control "1"), confirm POST
\* (control "2"), settle delay, ID list; the confirm POST is sent only after
\* the propose POST was answered 200 and carries a token, and both POSTs
\* carry the caller's ID as hidden_certificate_idx.
C17_DeleteOrder ==
    op = "DeleteCert" =>
        /\ IsPrefix(Kinds, DeleteOrder)
        /\ Len(sent) >= 2 => sent[2].page = "delete" /\ sent[2].form = {<<"idx", id>>}
        /\ Len(sent) >= 3 =>
             /\ FormValues(sent[3].form, "hidden_certificate_process_control") = {"1"}
             /\ FormValues(sent[3].form, "hidden_certificate_idx") = {id}
        /\ Len(sent) >= 4 =>
             /\ Succeeded(sent[3])
             /\ FormValues(sent[4].form, "CSRFToken") \subseteq Tokens
             /\ FormValues(sent[4].form, "CSRFToken") # {}
             /\ FormValues(sent[4].form, "hidden_certificate_process_control") = {"2"}
             /\ FormValues(sent[4].form, "hidden_certificate_idx") = {id}

C17_Witness ==
    /\ op = "DeleteCert" /\ pc = "done"
    /\ Kinds = DeleteOrder
    /\ id = "2"
    /\ FormValues(sent[3].form, "CSRFToken") = {"t1"}
    /\ FormValues(sent[4].form, "CSRFToken") = {"t2"}
    /\ FormValues(sent[4].form, "hidden_certificate_idx") = {"2"}

SetActiveOrder == <<"GET", "POST", "POST">>

UploadOrder == <<"LIST", "GET", "POST", "SLEEP", "LIST">>

\* the positions of the log that hold a request
Requests == { k \in DOMAIN sent : IsRequest(sent[k]) }

\* the request at position k met a transport error or a status other than 200
Failed(k) == IsRequest(sent[k]) /\ ~Succeeded(sent[k])

\* C18: no request is retried: the requests of an invocation are an initial
\* part of its workflow's fixed sequence, so SetActiveCert issues at most 3,
\* DeleteCert at most 5 and UploadNewCert at most 4, and a request that met
\* an error is followed by no further request.
C18_NoRetryNoRequestAfterError ==
    /\ op = "SetActiveCert" => IsPrefix(Kinds, SetActiveOrder) /\ Cardinality(Requests) <= 3
    /\ op = "DeleteCert" => IsPrefix(Kinds, DeleteOrder) /\ Cardinality(Requests) <= 5
    /\ op = "UploadNewCert" => IsPrefix(Kinds, UploadOrder) /\ Cardinality(Requests) <= 4
    /\ \A k \in DOMAIN sent : Failed(k) => \A j \in Requests : j <= k

\* the same with the confirm POST of DeleteCert set aside
C18_ExceptDeleteConfirm ==
    /\ op = "SetActiveCert" => IsPrefix(Kinds, SetActiveOrder) /\ Cardinality(Requests) <= 3
    /\ op = "DeleteCert" => IsPrefix(Kinds, DeleteOrder) /\ Cardinality(Requests) <= 5
    /\ op = "UploadNewCert" => IsPrefix(Kinds, UploadOrder) /\ Cardinality(Requests) <= 4
    /\ \A k \in DOMAIN sent :
         (Failed(k) /\ ~(op = "DeleteCert" /\ k = 4 /\ Refused(sent[k])))
             => \A j \in Requests : j <= k

\* C19: the first POST of SetActiveCert holds the page identifier, the
\* token, the discovered selector field set to the caller's ID, each
\* discovered HTTPS checkbox role set to "1" and nothing else; a role that
\* was not discovered is left out, and a settings page with a token and a
\* selector leads to that POST whether or not it has the checkboxes.
C19_FirstPostContents ==
    op = "SetActiveCert" =>
        /\ Len(sent) >= 2 =>
             LET form == sent[2].form
                 f == Deref(formFields)
                 roles == {f.httpsWebField, f.httpsIppField} \ {""}
             IN  /\ FormValues(form, f.certSelectField) = {id}
                 /\ \A n \in roles : FormValues(form, n) = {"1"}
                 /\ FormKeys(form) = {"pageid", "CSRFToken", f.certSelectField} \cup roles
                 /\ FormValues(form, "pageid") = {"326"}
        /\ ( /\ Len(sent) = 1
             /\ Succeeded(sent[1])
             /\ bodyBytes.token # ""
             /\ CertSelectField(bodyBytes) # "" ) => pc = "s_post1"

C19_Witness ==
    /\ op = "SetActiveCert" /\ pc = "done" /\ result.err = NoErr
    /\ Deref(formFields).httpsWebField = "B86c"
    /\ Deref(formFields).httpsIppField = ""
    /\ FormKeys(sent[2].form) = {"pageid", "CSRFToken", "B903", "B86c"}

\* SetActiveCert on a page with a selector and no HTTPS checkbox at all
C19_NoCheckboxWitness ==
    /\ op = "SetActiveCert" /\ pc = "done" /\ result.err = NoErr
    /\ Deref(formFields).httpsWebField = ""
    /\ FormKeys(sent[2].form) = {"pageid", "CSRFToken", "Bb23"}

\* the first two (or fewer) of the hidden fields of the page read last whose
\* names are not among the known ones
Companions(known) ==
    LET hf == HiddenFields(bodyBytes, known)
    IN  { hf[k] : k \in { j \in DOMAIN hf : j <= 2 } }

\* a POST is about to be sent with the form built from the page read last
DeletePostReady == op = "DeleteCert" /\ pc \in {"d_post1", "d_post2"}

ImportPostReady == op = "UploadNewCert" /\ pc = "u_post"

\* C20: on the delete and import pages the first qualifying hidden field of
\* the page, and the second when there is one, is in the form about to be
\* posted with an empty value, also when the page has exactly one.
C20_CompanionsSubmitted ==
    /\ DeletePostReady =>
         \A n \in Companions(KnownDeleteNames) : <<n, "">> \in data
    /\ ImportPostReady =>
         \A n \in Companions(KnownImportNames) : \E j \in DOMAIN parts : parts[j] = <<n, "">>

\* the same for pages that have no or at least two qualifying hidden fields
C20_PairSubmitted ==
    /\ (DeletePostReady /\ Len(HiddenFields(bodyBytes, KnownDeleteNames)) # 1) =>
         \A n \in Companions(KnownDeleteNames) : <<n, "">> \in data
    /\ (ImportPostReady /\ Len(HiddenFields(bodyBytes, KnownImportNames)) # 1) =>
         \A n \in Companions(KnownImportNames) : \E j \in DOMAIN parts : parts[j] = <<n, "">>

\* the names the companion fields are said never to have
KnownStableNames ==
    {"CSRFToken", "pageid", "hidden_certificate_process_control",
     "hidden_certificate_idx", "hidden_cert_import_password"}

\* the delete-page or import-page discoverer returned a field set
CompanionsDiscovered ==
    /\ pc = "discovered"
    /\ op \in {"parseDeleteFormFields", "parseImportFormFields"}
    /\ formFields # Nil

\* the companion names the discoverer returned
CompanionsReturned ==
    {Deref(formFields).hiddenField1, Deref(formFields).hiddenField2} \ {""}

\* C21: no companion hidden field returned by the delete-page or the
\* import-page discoverer has a name among the known stable names CSRFToken,
\* pageid, hidden_certificate_process_control, hidden_certificate_idx and
\* hidden_cert_import_password.
C21_CompanionsNeverKnown ==
    CompanionsDiscovered => CompanionsReturned \cap KnownStableNames = {}

\* each discoverer keeps the names of its own skip list out of the companions
C21_OwnSkipListExcluded ==
    CompanionsDiscovered =>
        CompanionsReturned \cap
            (IF op = "parseDeleteFormFields" THEN KnownDeleteNames ELSE KnownImportNames) = {}

=============================================================================
